---- MODULE Spec2Model ----
(***************************************************************************)
(* The three analysis scripts of the repository, run top to bottom on a    *)
(* colon.csv file:                                                         *)
(*   survival       src/survival.py                                        *)
(*   calosc         src/notebooks/analiza_calosc.py                        *)
(*   strat          src/notebooks/analiza_calosc_strat.py                  *)
(* A data frame is a record [cols, index, data, dtype]: the column names   *)
(* in order, the index labels in row order, the rows (functions from       *)
(* column name to value) and the dtype of every column.  A missing value   *)
(* (NaN) is NA.  The estimators of the statistics library are not          *)
(* modelled: a fit is recorded by the rows and the label it was given.     *)
(***************************************************************************)
EXTENDS Integers, Sequences, FiniteSets, TLC

VARIABLES nb, pc, err, csv, colon, curves, logrank, colon_tv, fitted,
          patient, colon_strat, cph,
          aic_values, c_values, best_aic, best_c

vars == <<nb, pc, err, csv, colon, curves, logrank, colon_tv, fitted,
          patient, colon_strat, cph,
          aic_values, c_values, best_aic, best_c>>

frameVars == <<nb, csv, colon, curves, logrank, colon_tv, fitted,
               patient, colon_strat, cph>>
aftVars == <<aic_values, c_values, best_aic, best_c>>

\* ------------------------------------------------------------------ bounds
\* Largest number of rows of the CSV file.
MaxRows == 3
\* AIC and concordance values of a fitted AFT model range over 0..MaxScore.
MaxScore == 2

\* ------------------------------------------------------------- data frames
\* A missing value: what read_csv yields for an empty field.
NA == -1

Range(s) == {s[i] : i \in DOMAIN s}

None == [cols |-> <<>>, index |-> <<>>, data |-> <<>>, dtype |-> <<>>]

\* The sixteen columns of the colon data set, in the order of the description.
CsvCols == <<"id", "study", "rx", "sex", "age", "obstruct", "perfor", "adhere",
             "nodes", "time", "status", "differ", "extent", "surg", "node4",
             "etype">>

\* The columns the analysis keeps.
Selected == <<"time", "status", "rx", "sex", "age", "obstruct", "adhere", "differ">>

\* pd.read_csv: a RangeIndex 0..n-1, and a column holding an empty field is
\* read as float64, any other as int64.
read_csv(file) ==
    [cols  |-> CsvCols,
     index |-> [i \in 1..Len(file) |-> i - 1],
     data  |-> file,
     dtype |-> [c \in Range(CsvCols) |->
                  IF \E i \in 1..Len(file) : file[i][c] = NA
                  THEN "float64" ELSE "int64"]]

\* df[names]: the named columns, in the order named; rows and index as they are.
\* A name that is no column of df is a KeyError (HasCols is the cell's guard).
HasCols(df, names) == Range(names) \subseteq Range(df.cols)

ColumnsMutant(df, names) ==
    [cols  |-> SelectSeq(df.cols, LAMBDA c : c \in Range(names)),
     index |-> df.index,
     data  |-> [i \in 1..Len(df.data) |-> [c \in Range(names) |-> df.data[i][c]]],
     dtype |-> [c \in Range(names) |-> df.dtype[c]]]
Columns(df, names) ==
    [cols  |-> names,
     index |-> df.index,
     data  |-> [i \in 1..Len(df.data) |-> [c \in Range(names) |-> df.data[i][c]]],
     dtype |-> [c \in Range(names) |-> df.dtype[c]]]

\* The positions at which a boolean series is true, in row order.
RECURSIVE Positions(_, _)
Positions(mask, i) ==
    IF i > Len(mask) THEN <<>>
    ELSE (IF mask[i] THEN <<i>> ELSE <<>>) \o Positions(mask, i + 1)

\* df[mask]: boolean indexing keeps the rows on which the mask is true, with
\* their index labels.
BoolIndex(df, mask) ==
    LET keep == Positions(mask, 1)
    IN  [df EXCEPT !.index = [k \in 1..Len(keep) |-> df.index[keep[k]]],
                   !.data  = [k \in 1..Len(keep) |-> df.data[keep[k]]]]

\* colon['rx'] != 2 (a comparison with NaN is true for != and false for ==).
NotLevMutant(row) == row["rx"] # 3
NotLev(row) == row["rx"] # 2

\* colon[colon['rx'] != 2]
DropLev(df) == BoolIndex(df, [i \in 1..Len(df.data) |-> NotLev(df.data[i])])

\* dropna(): a row is kept when none of its values is missing.
CompleteMutant(df, row) == \E c \in Range(df.cols) : row[c] # NA
Complete(df, row) == \A c \in Range(df.cols) : row[c] # NA

dropna(df) == BoolIndex(df, [i \in 1..Len(df.data) |-> Complete(df, df.data[i])])

\* df.iloc[a:b]: the rows at positions a .. b-1 counted from 0, whatever their
\* index labels; a slice that runs past the last row is cut short.
iloc(df, a, b) ==
    LET last == IF b < Len(df.data) THEN b ELSE Len(df.data)
    IN  [df EXCEPT !.index = SubSeq(df.index, a + 1, last),
                   !.data  = SubSeq(df.data, a + 1, last)]

\* --------------------------------------------------------------- the inputs
\* The values of the columns the analysis never reads.
Default == [id |-> 1, study |-> 1, rx |-> 1, sex |-> 1, age |-> 50, obstruct |-> 0,
            perfor |-> 0, adhere |-> 0, nodes |-> 1, time |-> 250, status |-> 1,
            differ |-> 2, extent |-> 3, surg |-> 0, node4 |-> 0, etype |-> 2]

CsvRow(v) == [c \in Range(CsvCols) |-> IF c \in DOMAIN v THEN v[c] ELSE Default[c]]

\* Rows that differ in treatment, follow-up and outcome.
FollowUp == {<<50, 1>>, <<200, 0>>, <<250, 1>>}
RowsFollowUp ==
    {CsvRow([time |-> f[1], status |-> f[2], rx |-> t[1], differ |-> t[2]]) :
        f \in FollowUp, t \in {<<1, 1>>, <<3, 3>>}}
    \cup {CsvRow([rx |-> 2, differ |-> 3])}

\* Rows that differ in differentiation (missing in some), with and without Lev.
RowsDiffer ==
    {CsvRow([differ |-> d, rx |-> 3]) : d \in {NA, 1, 2, 3}}
    \cup {CsvRow([differ |-> d, rx |-> 2]) : d \in {NA, 3}}

\* Rows that differ in the two-valued covariates.
RowsGroups ==
    {CsvRow([sex |-> g[1], obstruct |-> g[2], adhere |-> g[3]]) :
        g \in {<<0, 0, 0>>, <<1, 0, 0>>, <<0, 1, 0>>, <<0, 0, 1>>, <<1, 1, 1>>}}

\* Rows that differ in age around the bin edges.
RowsAge ==
    {CsvRow([age |-> a]) : a \in {44, 45, 46, 65, 66}} \cup {CsvRow([rx |-> 3])}

\* Rows that differ in treatment and in what is missing.
RowsMissing ==
    {CsvRow([rx |-> r, differ |-> d, nodes |-> n]) :
        r \in {1, 2}, d \in {NA, 2}, n \in {NA, 1}}
    \cup {CsvRow([obstruct |-> NA])}

Families(n) ==
    IF n = "survival"
    THEN {RowsGroups, RowsAge, RowsMissing}
    ELSE {RowsFollowUp, RowsDiffer, RowsGroups}

Files(n) == UNION {[1..k -> F] : k \in 1..MaxRows, F \in Families(n)}

Notebooks == {"survival", "calosc", "strat"}

\* ------------------------------------------------------- groups and labels
\* The boolean masks of the sections, by the name the code gives them
\* (an == comparison with NaN is false, and ~ negates it to true).
AgeLabels == <<"young", "mid", "old">>

IsAge(row, label) ==
    row["age_category"] # NA /\ AgeLabels[row["age_category"] + 1] = label

Mask(m, row) ==
    CASE m = "rx1" -> row["rx"] = 1
      [] m = "rx2" -> row["rx"] = 2
      [] m = "rx3" -> row["rx"] = 3
      [] m = "m" -> row["sex"] = 0
      [] m = "~m" -> ~(row["sex"] = 0)
      [] m = "o" -> row["obstruct"] = 0
      [] m = "~o" -> ~(row["obstruct"] = 0)
      [] m = "a" -> row["adhere"] = 0
      [] m = "~a" -> ~(row["adhere"] = 0)
      [] m = "d1" -> row["differ"] = 1
      [] m = "d2" -> row["differ"] = 2
      [] m = "d3" -> row["differ"] = 3
      [] m = "young" -> IsAge(row, "young")
      [] m = "mid" -> IsAge(row, "mid")
      [] m = "old" -> IsAge(row, "old")

\* The kmf.fit calls of a section: the mask and the label of each.
KMFits(n, sec) ==
    CASE sec = "rx" /\ n = "survival" ->
            <<<<"rx1", "Observation">>, <<"rx2", "Lev(amisole)">>,
              <<"rx3", "Lev(amisole) + 5-FU">>>>
      [] sec = "rx" /\ n # "survival" ->
            <<<<"rx1", "Observation">>, <<"rx3", "Lev(amisole) + 5-FU">>>>
      [] sec = "sex" -> <<<<"m", "Male">>, <<"~m", "Female">>>>
      [] sec = "age" -> <<<<"young", "<45">>, <<"mid", "45-65">>, <<"old", "65<">>>>
      [] sec = "obstruct" /\ n = "calosc" ->
            <<<<"o", "No obstruct">>, <<"~o", "Obstruct">>>>
      [] sec = "obstruct" /\ n = "strat" ->
            <<<<"o", "Obstruct">>, <<"~o", "No obstruct">>>>
      [] sec = "adhere" /\ n = "calosc" ->
            <<<<"a", "No adhere">>, <<"~a", "adhere">>>>
      [] sec = "adhere" /\ n = "strat" ->
            <<<<"a", "Adhere">>, <<"~a", "No adhere">>>>
      [] sec = "differ" ->
            <<<<"d1", "differ = 1">>, <<"d2", "differ = 2">>, <<"d3", "differ = 3">>>>

\* The naf.fit calls of a section.
HazardFits(n, sec) ==
    CASE sec = "age" -> <<<<"young", "Young">>, <<"mid", "Mid">>, <<"old", "Old">>>>
      [] sec = "adhere" /\ n = "calosc" ->
            <<<<"a", "No adhere">>, <<"~a", "Adheree">>>>
      [] sec = "adhere" /\ n = "strat" ->
            <<<<"a", "Obstruct">>, <<"~a", "No obstruct">>>>
      [] OTHER -> KMFits(n, sec)

\* The grouping column of the section's multivariate_logrank_test.
LogRankGroups(n, sec) ==
    CASE sec = "rx" -> "rx"
      [] sec = "sex" -> "sex"
      [] sec = "age" -> "age_category"
      [] sec = "obstruct" -> "obstruct"
      [] sec = "adhere" -> "adhere"
      [] sec = "differ" -> "adhere"

\* T[mask]: the index labels of the rows of df on which the mask is true.
Labelled(df, m) ==
    {df.index[i] : i \in {j \in 1..Len(df.data) : Mask(m, df.data[j])}}

\* The curves one cell draws: one per fit, on the rows of its mask.
Fits(df, sec, est, fits) ==
    {[sec |-> sec, est |-> est, label |-> fits[k][2], mask |-> fits[k][1],
      rows |-> Labelled(df, fits[k][1])] : k \in 1..Len(fits)}

\* pd.cut(age, bins=[0, 45, 65, inf]): the bins are open on the left and closed
\* on the right; the value is the position of the label, NA outside the bins.
Bins == <<0, 45, 65>>

cut(x) ==
    IF x = NA \/ x <= Bins[1] THEN NA
    ELSE IF x <= Bins[2] THEN 0
    ELSE IF x <= Bins[3] THEN 1
    ELSE 2

\* df[name] = values: the column is replaced where it is, or added after the
\* others when df has none of that name.  The values are a series aligned with
\* the rows of df.
SetColumn(df, name, dtype, values) ==
    [cols  |-> IF name \in Range(df.cols) THEN df.cols ELSE Append(df.cols, name),
     index |-> df.index,
     data  |-> [i \in 1..Len(df.data) |->
                  [c \in Range(df.cols) \cup {name} |->
                     IF c = name THEN values[i] ELSE df.data[i][c]]],
     dtype |-> [c \in Range(df.cols) \cup {name} |->
                  IF c = name THEN dtype ELSE df.dtype[c]]]

\* ------------------------------------------------------------ get_dummies
Without(s, x) == SelectSeq(s, LAMBDA y : y # x)

Min(S) == CHOOSE x \in S : \A y \in S : x <= y

\* The elements of a finite set of numbers, ascending.
RECURSIVE Sorted(_)
Sorted(S) == IF S = {} THEN <<>> ELSE <<Min(S)>> \o Sorted(S \ {Min(S)})

\* The categories of a column: its distinct values that are not missing, sorted.
Levels(df, c) ==
    Sorted({df.data[i][c] : i \in 1..Len(df.data)} \ {NA})

\* How a level is written in a column name: 2 in an int64 column, 2.0 in a
\* float64 one.
LevelName(v, dtype) ==
    IF dtype = "float64" THEN ToString(v) \o ".0" ELSE ToString(v)

DummyName(c, v, dtype) == c \o "_" \o LevelName(v, dtype)

\* The levels that get a column: all but the first under drop_first.
DummyLevels(df, c) ==
    IF Levels(df, c) = <<>> THEN <<>> ELSE Tail(Levels(df, c))

\* The indicator of level v on a row; a row whose value is missing has 0 in
\* every indicator (dummy_na is False).
Indicator(row, c, v) == IF row[c] = v THEN 1 ELSE 0

\* pd.get_dummies(df, columns=[c], drop_first=True): column c is removed and
\* the indicator columns follow the remaining ones.
get_dummies(df, c) ==
    LET lv    == DummyLevels(df, c)
        rest  == Without(df.cols, c)
        names == [k \in 1..Len(lv) |-> DummyName(c, lv[k], df.dtype[c])]
        level == [k \in 1..Len(lv) |-> lv[k]]
        all   == Range(rest) \cup Range(names)
        of(n) == level[CHOOSE k \in 1..Len(lv) : names[k] = n]
    IN  [cols  |-> rest \o names,
         index |-> df.index,
         data  |-> [i \in 1..Len(df.data) |->
                      [n \in all |->
                         IF n \in Range(rest) THEN df.data[i][n]
                         ELSE Indicator(df.data[i], c, of(n))]],
         dtype |-> [n \in all |-> IF n \in Range(rest) THEN df.dtype[n] ELSE "bool"]]

\* ----------------------------------------------------- to_episodic_format
\* time_gaps=100.
time_gaps == 100

\* The columns of the table the time-varying model is built from.
TvCols == <<"time", "status", "rx", "sex", "obstruct", "differ_3">>

\* The columns of the episodic table: stop, start and the event first, then
\* the others (the subject's id among them) in sorted order.
EpisodicCols == <<"stop", "start", "status", "differ_3", "id", "obstruct", "rx", "sex">>

\* The number of intervals of a subject: the duration in gaps, rounded up.
IntervalsMutant(t) == t \div time_gaps
Intervals(t) == (t + time_gaps - 1) \div time_gaps

\* The k-th interval of a subject: (start, stop] with the event on the last one
\* only; every other column repeats the subject's value and id is its label.
Episode(row, id, k) ==
    LET n == Intervals(row["time"])
    IN  [c \in Range(EpisodicCols) |->
           CASE c = "stop" -> IF k = n THEN row["time"] ELSE k * time_gaps
             [] c = "start" -> (k - 1) * time_gaps
             [] c = "status" -> IF k = n THEN row["status"] ELSE 0
             [] c = "id" -> id
             [] OTHER -> row[c]]

\* The intervals of the subjects from position i on, subject after subject.
RECURSIVE Episodes(_, _)
Episodes(df, i) ==
    IF i > Len(df.data) THEN <<>>
    ELSE [k \in 1..Intervals(df.data[i]["time"]) |->
             Episode(df.data[i], df.index[i], k)]
         \o Episodes(df, i + 1)

\* to_episodic_format(df, duration_col='time', event_col='status',
\* time_gaps=100.): the subject's id is its index label in df.
to_episodic_format(df) ==
    LET rows == Episodes(df, 1)
    IN  [cols  |-> EpisodicCols,
         index |-> [i \in 1..Len(rows) |-> i - 1],
         data  |-> rows,
         dtype |-> [c \in Range(EpisodicCols) |->
                      IF c \in {"stop", "start"} THEN "float64"
                      ELSE IF c = "id" THEN "int64" ELSE df.dtype[c]]]

\* colon_tv['differ_3'] * colon_tv['stop']
TimeInteractionMutant(row) == row["differ_3"] * row["start"]
TimeInteraction(row) == row["differ_3"] * row["stop"]

\* ------------------------------------------------- the AFT model comparison
\* models = {'Weibull': wb_aft, 'LogNormal': ln_aft, 'LogLogistic': ll_aft}:
\* a dict is iterated in the order its keys were inserted.
Models == <<"Weibull", "LogNormal", "LogLogistic">>

Scores == [Range(Models) -> 0..MaxScore]

\* min(d, key=d.get) and max(d, key=d.get): the keys are scanned in order and
\* the one kept changes only for a strictly smaller (larger) value.  The sign
\* is 1 for min and -1 for max; slack is 0 for a strict comparison.
RECURSIVE Scan(_, _, _, _, _, _)
Scan(keys, d, i, best, sign, slack) ==
    IF i > Len(keys) THEN best
    ELSE Scan(keys, d, i + 1,
              IF sign * d[keys[i]] < sign * d[best] + slack THEN keys[i] ELSE best,
              sign, slack)

PyMinMutant(keys, d) == Scan(keys, d, 2, keys[1], 1, 1)
PyMin(keys, d) == Scan(keys, d, 2, keys[1], 1, 0)

PyMax(keys, d) == Scan(keys, d, 2, keys[1], -1, 0)

\* ------------------------------------------------------------ the Cox fits
\* A Cox model before it is fitted.
NoFit == [duration |-> "", event |-> "", strata |-> <<>>, params |-> <<>>,
          groups |-> {}]

\* str(v) of a value of the given dtype: an indicator column is boolean.
AsStr(v, dtype) ==
    IF dtype = "bool" THEN (IF v = 1 THEN "True" ELSE "False") ELSE ToString(v)

\* df[c] = df[c].astype(str)
astype_str(df, c) ==
    [df EXCEPT !.data  = [i \in 1..Len(df.data) |->
                            [df.data[i] EXCEPT ![c] = AsStr(@, df.dtype[c])]],
               !.dtype = [@ EXCEPT ![c] = "object"]]

\* The columns passed to the stratified fit.
StratCols == <<"time", "status", "sex", "rx", "obstruct", "differ_3">>

\* The covariates of CoxPHFitter.fit(df, duration_col, event_col, strata): the
\* columns of df that are neither the duration, the event nor a stratum; each
\* gets one coefficient.
CoxCovariatesMutant(df, duration, event, strata) ==
    SelectSeq(df.cols, LAMBDA c : c \notin {duration, event})
CoxCovariates(df, duration, event, strata) ==
    SelectSeq(df.cols, LAMBDA c : c \notin {duration, event} \cup Range(strata))

\* The strata of the fit: the distinct values the rows take on the strata
\* columns, one baseline hazard for each.
StrataGroups(df, strata) ==
    {[k \in 1..Len(strata) |-> df.data[i][strata[k]]] : i \in 1..Len(df.data)}

CoxFit(df, duration, event, strata) ==
    [duration |-> duration, event |-> event, strata |-> strata,
     params |-> CoxCovariates(df, duration, event, strata),
     groups |-> StrataGroups(df, strata)]

\* ---------------------------------------------------------------- the cells
C(op, sec) == [op |-> op, sec |-> sec]

Section(sec) == <<C("km", sec), C("hazard", sec), C("logrank", sec)>>

\* The cells of each script that act on the data, in file order.
CellsSurvival ==
    <<C("read_csv", ""), C("select", ""), C("dropna", "")>>
    \o Section("rx") \o Section("sex")
    \o <<C("cut", "")>> \o Section("age")

CellsNotebook ==
    <<C("read_csv", ""), C("select", ""), C("filter", "")>>
    \o Section("rx") \o Section("sex") \o Section("obstruct")
    \o Section("adhere") \o <<C("km", "differ"), C("logrank", "differ")>>
    \o <<C("get_dummies", "")>>

\* The semi-parametric cells, the same in the two notebooks.
CellsCox ==
    <<C("strat_copy", ""), C("strat_fit", ""), C("tv_copy", ""),
      C("to_episodic", ""), C("tv_assign", ""), C("ctv_fit", "")>>

\* analiza_calosc.py looks at colon.iloc[0:1] before the first fit on named
\* columns, analiza_calosc_strat.py after it.
CellsCalosc == CellsNotebook \o <<C("iloc", ""), C("aft_subset", "")>> \o CellsCox

CellsStrat == CellsNotebook \o <<C("aft_subset", ""), C("iloc", "")>> \o CellsCox

Cells(n) ==
    CASE n = "survival" -> CellsSurvival
      [] n = "calosc" -> CellsCalosc
      [] n = "strat" -> CellsStrat

\* The columns a cell reads by name: a name that is no column is a KeyError.
Reads(c) ==
    CASE c.op = "aft_subset" /\ nb = "calosc" ->
            <<"time", "status", "differ_3", "rx", "sex", "obstruct">>
      [] c.op = "aft_subset" /\ nb = "strat" ->
            <<"time", "status", "differ_3", "rx", "sex">>
      [] c.op = "strat_copy" -> <<"differ_3">>
      [] c.op = "strat_fit" -> StratCols
      [] c.op = "tv_copy" -> <<"differ_3", "time">>
      [] c.op = "to_episodic" -> TvCols
      [] OTHER -> <<>>

Cell == IF pc <= Len(Cells(nb)) THEN Cells(nb)[pc] ELSE C("end", "")

Running(op) == err = "none" /\ Cell.op = op /\ HasCols(colon, Reads(Cell))

\* The cell that has just run.
Ran == IF pc > 1 THEN Cells(nb)[pc - 1] ELSE C("start", "")

Step == pc' = pc + 1 /\ err' = err

Init ==
    /\ nb \in Notebooks
    /\ pc = 1
    /\ err = "none"
    /\ csv \in Files(nb)
    /\ colon = None
    /\ curves = {}
    /\ logrank = {}
    /\ colon_tv = None
    /\ fitted = None
    /\ patient = None
    /\ colon_strat = None
    /\ cph = NoFit
    /\ aic_values = <<>>
    /\ c_values = <<>>
    /\ best_aic = "none"
    /\ best_c = "none"

\* colon = pd.read_csv('../data/colon.csv')
ReadCsv ==
    /\ Running("read_csv")
    /\ colon' = read_csv(csv)
    /\ Step
    /\ UNCHANGED <<nb, csv, curves, logrank, colon_tv, fitted>>
    /\ UNCHANGED <<patient, colon_strat, cph>>
    /\ UNCHANGED aftVars

\* colon = colon[['time', 'status', 'rx', 'sex', 'age', 'obstruct', 'adhere', 'differ']]
Select ==
    /\ Running("select")
    /\ colon' = Columns(colon, Selected)
    /\ Step
    /\ UNCHANGED <<nb, csv, curves, logrank, colon_tv, fitted>>
    /\ UNCHANGED <<patient, colon_strat, cph>>
    /\ UNCHANGED aftVars

\* colon = colon[colon['rx'] != 2]
Filter ==
    /\ Running("filter")
    /\ colon' = DropLev(colon)
    /\ Step
    /\ UNCHANGED <<nb, csv, curves, logrank, colon_tv, fitted>>
    /\ UNCHANGED <<patient, colon_strat, cph>>
    /\ UNCHANGED aftVars

\* colon_df.dropna(inplace=True)
DropNa ==
    /\ Running("dropna")
    /\ colon' = dropna(colon)
    /\ Step
    /\ UNCHANGED <<nb, csv, curves, logrank, colon_tv, fitted>>
    /\ UNCHANGED <<patient, colon_strat, cph>>
    /\ UNCHANGED aftVars

\* The Kaplan-Meier cell of a section: kmf.fit(T[mask], E[mask], label=...)
KMCell ==
    /\ Running("km")
    /\ curves' = curves \cup Fits(colon, Cell.sec, "KM", KMFits(nb, Cell.sec))
    /\ Step
    /\ UNCHANGED <<nb, csv, colon, logrank, colon_tv, fitted>>
    /\ UNCHANGED <<patient, colon_strat, cph>>
    /\ UNCHANGED aftVars

\* The Nelson-Aalen cell of a section: naf.fit(T[mask], E[mask], label=...)
HazardCell ==
    /\ Running("hazard")
    /\ curves' = curves \cup Fits(colon, Cell.sec, "NA", HazardFits(nb, Cell.sec))
    /\ Step
    /\ UNCHANGED <<nb, csv, colon, logrank, colon_tv, fitted>>
    /\ UNCHANGED <<patient, colon_strat, cph>>
    /\ UNCHANGED aftVars

\* multivariate_logrank_test(colon['time'], colon[<groups>], colon['status'])
LogRankCell ==
    /\ Running("logrank")
    /\ logrank' = logrank \cup
          {[sec |-> Cell.sec, durations |-> "time",
            groups |-> LogRankGroups(nb, Cell.sec), events |-> "status"]}
    /\ Step
    /\ UNCHANGED <<nb, csv, colon, curves, colon_tv, fitted>>
    /\ UNCHANGED <<patient, colon_strat, cph>>
    /\ UNCHANGED aftVars

\* colon_df['age_category'] = pd.cut(colon_df['age'], bins=bins, labels=labels)
CutCell ==
    /\ Running("cut")
    /\ colon' = SetColumn(colon, "age_category", "category",
                          [i \in 1..Len(colon.data) |-> cut(colon.data[i]["age"])])
    /\ Step
    /\ UNCHANGED <<nb, csv, curves, logrank, colon_tv, fitted>>
    /\ UNCHANGED <<patient, colon_strat, cph>>
    /\ UNCHANGED aftVars

\* colon = pd.get_dummies(colon, columns = ['differ'], drop_first=True)
GetDummies ==
    /\ Running("get_dummies")
    /\ colon' = get_dummies(colon, "differ")
    /\ Step
    /\ UNCHANGED <<nb, csv, curves, logrank, colon_tv, fitted>>
    /\ UNCHANGED <<patient, colon_strat, cph>>
    /\ UNCHANGED aftVars

\* The first cell that names the column differ_3: an AFT model is fitted on
\* colon[['time', 'status', 'differ_3', ...]].
AftSubset ==
    /\ Running("aft_subset")
    /\ Step
    /\ UNCHANGED frameVars
    /\ UNCHANGED aftVars

\* colon.iloc[0:1]: the observation whose predicted curves are plotted.
Iloc ==
    /\ Running("iloc")
    /\ patient' = iloc(colon, 0, 1)
    /\ Step
    /\ UNCHANGED <<nb, csv, colon, curves, logrank, colon_tv, fitted>>
    /\ UNCHANGED <<colon_strat, cph>>
    /\ UNCHANGED aftVars

\* A cell that names a column the table does not have stops the run.
KeyError ==
    /\ err = "none"
    /\ ~HasCols(colon, Reads(Cell))
    /\ err' = "KeyError"
    /\ pc' = pc
    /\ UNCHANGED frameVars
    /\ UNCHANGED aftVars

\* colon_strat = colon.copy()
\* colon_strat['differ_3'] = colon_strat['differ_3'].astype(str)
StratCopy ==
    /\ Running("strat_copy")
    /\ colon_strat' = astype_str(colon, "differ_3")
    /\ Step
    /\ UNCHANGED <<nb, csv, colon, curves, logrank, colon_tv, fitted>>
    /\ UNCHANGED <<patient, cph>>
    /\ UNCHANGED aftVars

\* cph.fit(colon_strat[['time', 'status', 'sex', 'rx', 'obstruct', 'differ_3']],
\*         duration_col='time', event_col='status', strata=['differ_3'])
StratFit ==
    /\ Running("strat_fit")
    /\ cph' = CoxFit(Columns(colon_strat, StratCols), "time", "status", <<"differ_3">>)
    /\ Step
    /\ UNCHANGED <<nb, csv, colon, curves, logrank, colon_tv, fitted>>
    /\ UNCHANGED <<patient, colon_strat>>
    /\ UNCHANGED aftVars

\* colon_tv = colon.copy()
\* colon_tv['differ_3*time'] = colon_tv['differ_3']*colon_tv['time']
TvCopy ==
    /\ Running("tv_copy")
    /\ colon_tv' = SetColumn(colon, "differ_3*time", "int64",
                             [i \in 1..Len(colon.data) |->
                                colon.data[i]["differ_3"] * colon.data[i]["time"]])
    /\ Step
    /\ UNCHANGED <<nb, csv, colon, curves, logrank, fitted>>
    /\ UNCHANGED <<patient, colon_strat, cph>>
    /\ UNCHANGED aftVars

\* colon_tv = to_episodic_format(colon[[...]], duration_col='time',
\*                               event_col='status', time_gaps=100.)
ToEpisodic ==
    /\ Running("to_episodic")
    /\ colon_tv' = to_episodic_format(Columns(colon, TvCols))
    /\ Step
    /\ UNCHANGED <<nb, csv, colon, curves, logrank, fitted>>
    /\ UNCHANGED <<patient, colon_strat, cph>>
    /\ UNCHANGED aftVars

\* colon_tv['differ_3*time'] = colon_tv['differ_3']*colon_tv['stop']
TvAssign ==
    /\ Running("tv_assign")
    /\ colon_tv' = SetColumn(colon_tv, "differ_3*time", "float64",
                             [i \in 1..Len(colon_tv.data) |->
                                TimeInteraction(colon_tv.data[i])])
    /\ Step
    /\ UNCHANGED <<nb, csv, colon, curves, logrank, fitted>>
    /\ UNCHANGED <<patient, colon_strat, cph>>
    /\ UNCHANGED aftVars

\* ctv.fit(colon_tv, id_col='id', event_col='status', start_col='start',
\*         stop_col='stop')
CtvFit ==
    /\ Running("ctv_fit")
    /\ fitted' = colon_tv
    /\ Step
    /\ UNCHANGED <<nb, csv, colon, curves, logrank, colon_tv>>
    /\ UNCHANGED <<patient, colon_strat, cph>>
    /\ UNCHANGED aftVars

Next ==
    \/ ReadCsv
    \/ Select
    \/ Filter
    \/ DropNa
    \/ KMCell
    \/ HazardCell
    \/ LogRankCell
    \/ CutCell
    \/ GetDummies
    \/ Iloc
    \/ AftSubset
    \/ KeyError
    \/ StratCopy
    \/ StratFit
    \/ TvCopy
    \/ ToEpisodic
    \/ TvAssign
    \/ CtvFit

Spec == Init /\ [][Next]_vars

\* ------------------------------------ the comparison cell, on its own inputs
InitAFT ==
    /\ nb = "calosc"
    /\ pc = 1
    /\ err = "none"
    /\ csv = <<>>
    /\ colon = None
    /\ curves = {}
    /\ logrank = {}
    /\ colon_tv = None
    /\ fitted = None
    /\ patient = None
    /\ colon_strat = None
    /\ cph = NoFit
    /\ aic_values = <<>>
    /\ c_values = <<>>
    /\ best_aic = "none"
    /\ best_c = "none"

\* The three fits, and the loop that collects model.AIC_ and
\* model.concordance_index_ under the model's name.
AftFit ==
    /\ aic_values = <<>>
    /\ aic_values' \in Scores
    /\ c_values' \in Scores
    /\ UNCHANGED <<best_aic, best_c, pc, err>>
    /\ UNCHANGED frameVars

\* best_model_name = min(aic_values, key=aic_values.get), printed, then
\* best_model_name = max(c_values, key=c_values.get), printed.
Compare ==
    /\ aic_values # <<>>
    /\ best_aic = "none"
    /\ best_aic' = PyMin(Models, aic_values)
    /\ best_c' = PyMax(Models, c_values)
    /\ UNCHANGED <<aic_values, c_values, pc, err>>
    /\ UNCHANGED frameVars

NextAFT ==
    \/ AftFit
    \/ Compare

SpecAFT == InitAFT /\ [][NextAFT]_vars

\* ------------------------------------------------------------------ claims
\* The run is past the cell op.
After(op) == \E k \in 1..(pc - 1) : Cells(nb)[k].op = op

\* The row of the CSV file that carries index label i.
CsvAt(i) == csv[i + 1]

\* The index labels of the rows of df whose column c has a value in S.
Where(df, c, S) == {df.index[i] : i \in {j \in 1..Len(df.data) : df.data[j][c] \in S}}

IndicatorCols(df) == Range(df.cols) \ Range(Without(Selected, "differ"))

\* C2 (as claimed): right after get_dummies the original category of every row
\* can be recovered from its indicator columns (differ_2 and differ_3 in the
\* claim, both 0 exactly when differ was 1): two rows with the same indicator
\* values had the same differ in the file.
C2_Recoverable ==
    Ran.op = "get_dummies" =>
        \A i, k \in 1..Len(colon.data) :
            (\A c \in IndicatorCols(colon) : colon.data[i][c] = colon.data[k][c])
               => CsvAt(colon.index[i])["differ"] = CsvAt(colon.index[k])["differ"]

\* C3: in the table passed to CoxTimeVaryingFitter.fit the column
\* differ_3*time is differ_3 times the row's own stop: 0 where differ_3 = 0 and
\* stop where differ_3 = 1; nothing of the earlier assignment on the copy of
\* colon (differ_3 times the subject's whole time) is left in it.
C3_TimeCovariate ==
    Ran.op = "ctv_fit" =>
        /\ fitted.cols = <<"stop", "start", "status", "differ_3", "id", "obstruct",
                           "rx", "sex", "differ_3*time">>
        /\ \A i \in 1..Len(fitted.data) :
              LET r == fitted.data[i]
              IN  /\ DOMAIN r = Range(fitted.cols)
                  /\ r["differ_3"] \in {0, 1}
                  /\ r["differ_3"] = 0 => r["differ_3*time"] = 0
                  /\ r["differ_3"] = 1 => r["differ_3*time"] = r["stop"]

\* C3 witness: a fitted row with differ_3 = 1 whose stop is not the subject's
\* whole time, so that the two assignments differ on it.
C3_Witness ==
    /\ Ran.op = "ctv_fit"
    /\ \E i \in 1..Len(fitted.data) :
          /\ fitted.data[i]["differ_3"] = 1
          /\ fitted.data[i]["stop"] # CsvAt(fitted.data[i]["id"])["time"]
          /\ fitted.data[i]["differ_3*time"] = fitted.data[i]["stop"]

\* The intervals of the subject with the given id, in table order.
SubjectRows(tv, id) == SelectSeq(tv.data, LAMBDA r : r["id"] = id)

Place(m) == CHOOSE k \in 1..Len(Models) : Models[k] = m

\* C5: the model printed as best by AIC has an AIC no larger than the others',
\* the one printed as best by concordance a concordance no smaller than the
\* others', and among equals the first of Weibull, LogNormal, LogLogistic is
\* the one printed.
C5_BestModel ==
    best_aic # "none" =>
        /\ best_aic \in Range(Models)
        /\ best_c \in Range(Models)
        /\ \A m \in Range(Models) :
              /\ aic_values[best_aic] <= aic_values[m]
              /\ c_values[best_c] >= c_values[m]
              /\ aic_values[m] = aic_values[best_aic] => Place(best_aic) <= Place(m)
              /\ c_values[m] = c_values[best_c] => Place(best_c) <= Place(m)

\* C5 witness: the comparison has run on values with a tie for the smallest AIC
\* and a tie for the largest concordance, neither won by the last model.
C5_Witness ==
    /\ best_aic = "LogNormal"
    /\ aic_values["LogLogistic"] = aic_values["LogNormal"]
    /\ aic_values["Weibull"] > aic_values["LogNormal"]
    /\ best_c = "Weibull"
    /\ c_values["LogLogistic"] = c_values["Weibull"]

\* The variable a section is about, as a column of the table.
SectionColumn(sec) == IF sec = "age" THEN "age_category" ELSE sec

\* C6 (as claimed): the log-rank test of every section is grouped by the
\* section's own variable, on the columns time and status.
C6_LogRankAsClaimed ==
    \A t \in logrank :
        /\ t.groups = SectionColumn(t.sec)
        /\ t.durations = "time"
        /\ t.events = "status"

\* C7: right after the selection cell the table has the eight columns time,
\* status, rx, sex, age, obstruct, adhere, differ in that order, as many rows
\* as the file, and in every cell the value read from the file.
C7_ColumnSelection ==
    Ran.op = "select" =>
        /\ colon.cols = <<"time", "status", "rx", "sex", "age", "obstruct", "adhere",
                          "differ">>
        /\ Len(colon.data) = Len(csv)
        /\ colon.index = [i \in 1..Len(csv) |-> i - 1]
        /\ \A i \in 1..Len(colon.data) :
              /\ DOMAIN colon.data[i] = Range(colon.cols)
              /\ \A c \in Range(colon.cols) : colon.data[i][c] = csv[i][c]

\* C7 witness: the selection has run on a file of two different rows or more,
\* one of them with a missing value in a column that is not selected.
C7_Witness ==
    /\ Ran.op = "select"
    /\ Len(csv) >= 2
    /\ csv[1] # csv[2]
    /\ \E i \in 1..Len(csv) : csv[i]["nodes"] = NA
    /\ Len(colon.cols) = 8

\* C8 (as claimed): every curve labelled Male is fitted on exactly the rows
\* with sex = 1 (male in the data description), every curve labelled Female
\* on exactly the rows with sex = 0.
C8_SexAsClaimed ==
    \A cv \in curves :
        /\ cv.label = "Male" => cv.rows = Where(colon, "sex", {1})
        /\ cv.label = "Female" => cv.rows = Where(colon, "sex", {0})

\* C9 (as claimed): in both notebooks a curve labelled Obstruct is fitted on
\* exactly the rows with obstruct = 1 and one labelled No obstruct on those
\* with obstruct = 0; a curve of the adhere section carries an adhere label,
\* the adherent one on the rows with adhere = 1 and No adhere on those with
\* adhere = 0.
C9_GroupsAsClaimed ==
    nb \in {"calosc", "strat"} =>
        \A cv \in curves :
            /\ cv.label = "Obstruct" =>
                  cv.rows = Where(colon, "obstruct", {1})
            /\ cv.label = "No obstruct" =>
                  cv.rows = Where(colon, "obstruct", {0})
            /\ cv.sec = "adhere" =>
                  /\ cv.label \in {"adhere", "Adhere", "Adheree", "No adhere"}
                  /\ cv.label = "No adhere" =>
                        cv.rows = Where(colon, "adhere", {0})
                  /\ cv.label # "No adhere" =>
                        cv.rows = Where(colon, "adhere", {1})

\* C10 (as claimed): in survival.py the curve labelled <45 is fitted on exactly
\* the rows with age < 45, the one labelled 45-65 on those with
\* 45 <= age <= 65, and the one labelled 65< on those with age > 65.
C10_AgeAsClaimed ==
    nb = "survival" =>
        \A cv \in curves :
            /\ cv.label = "<45" => cv.rows = Where(colon, "age", {a \in Int : a < 45})
            /\ cv.label = "45-65" =>
                  cv.rows = Where(colon, "age", {a \in Int : 45 <= a /\ a <= 65})
            /\ cv.label = "65<" => cv.rows = Where(colon, "age", {a \in Int : a > 65})

\* C11 (as claimed): right after colon.iloc[0:1] in analiza_calosc.py the
\* observation taken is the one with the earliest failure: it has status = 1
\* and no row of the table with status = 1 has a smaller time.
C11_EarliestFailureAsClaimed ==
    (nb = "calosc" /\ Ran.op = "iloc") =>
        \A i \in 1..Len(patient.data) :
            /\ patient.data[i]["status"] = 1
            /\ \A k \in 1..Len(colon.data) :
                  colon.data[k]["status"] = 1
                     => patient.data[i]["time"] <= colon.data[k]["time"]

\* C12: right after the stratified fit the model has a coefficient for exactly
\* sex, rx and obstruct and none for differ_3; time is its duration, status its
\* event indicator and differ_3 its only stratum, none of them a covariate;
\* and the rows fall into exactly two strata.
C12_StratifiedCox ==
    Ran.op = "strat_fit" =>
        /\ Len(cph.params) = 3
        /\ Range(cph.params) = {"sex", "rx", "obstruct"}
        /\ cph.duration = "time"
        /\ cph.event = "status"
        /\ cph.strata = <<"differ_3">>
        /\ Range(cph.params) \cap {"time", "status", "differ_3"} = {}
        /\ Cardinality(cph.groups) = 2
        /\ \A i \in 1..Len(colon_strat.data) :
              <<colon_strat.data[i]["differ_3"]>> \in cph.groups

\* The stratified model has been fitted on a table of three rows or more.
C12_Witness ==
    /\ Ran.op = "strat_fit"
    /\ cph # NoFit
    /\ Len(colon_strat.data) >= 3

\* The rows of the file with a missing value in one of the selected columns.
Incomplete == {j \in 1..Len(csv) : \E c \in Range(Selected) : csv[j][c] = NA}

\* C13: right after dropna in survival.py no row of the table has a missing
\* value in any of the eight selected columns; a row of the file is removed
\* exactly when one of its eight selected values is missing; and a row whose
\* only missing values are in columns that were not selected (nodes) is kept.
C13_DropNa ==
    (nb = "survival" /\ Ran.op = "dropna") =>
        /\ colon.cols = Selected
        /\ \A i \in 1..Len(colon.data) :
              \A c \in Range(Selected) : colon.data[i][c] # NA
        /\ \A j \in 1..Len(csv) :
              (j - 1 \notin Range(colon.index)) <=> (j \in Incomplete)
        /\ Len(colon.data) = Len(csv) - Cardinality(Incomplete)
        /\ \A j \in 1..Len(csv) :
              (csv[j]["nodes"] = NA /\ j \notin Incomplete)
                 => j - 1 \in Range(colon.index)

\* C13 witness: dropna has run on a file with a row it removes, a row it
\* keeps although its nodes value is missing, and a fully recorded row.
C13_Witness ==
    /\ nb = "survival"
    /\ Ran.op = "dropna"
    /\ Incomplete # {}
    /\ \E j \in 1..Len(csv) \ Incomplete :
          csv[j]["nodes"] = NA /\ j - 1 \in Range(colon.index)
    /\ \E j \in 1..Len(csv) \ Incomplete : csv[j]["nodes"] # NA

====
